---- MODULE Spec2Model ----
(***************************************************************************)
(* A model of sockcanpp::CanDriver (src/src/CanDriver.cpp,                 *)
(* src/include/CanDriver.hpp): one driver object, the raw CAN socket the   *)
(* operating system keeps for it, and the threads that call the driver.    *)
(*                                                                         *)
(* Every member function is split at its lock acquisitions and at its      *)
(* system calls; a system call is entered in one step (pc = "in_<call>")   *)
(* and returns in another, where the operating system picks its result.    *)
(* What a step does between two such points touches nothing another        *)
(* thread can see, so it is part of the step.                              *)
(*                                                                         *)
(* What is taken for granted of the environment:                           *)
(*  - the process holds no other descriptor under the numbers _socketFd    *)
(*    takes, so a system call on a descriptor that is not the driver's     *)
(*    open socket returns -1 (EBADF);                                      *)
(*  - any system call on the open socket may also fail with -1;            *)
(*  - select watches one descriptor, so it returns 1, 0 or -1;             *)
(*  - a constructor that throws leaves no object to call; the protected    *)
(*    uninitialiseSocketCan is called by the destructor and by derived     *)
(*    classes, here by any thread and any number of times.                 *)
(*                                                                         *)
(* Three specifications: Spec, one thread that calls the object with all   *)
(* the arguments of the input sets; Concurrent, two threads that call it   *)
(* side by side with a few arguments each; FairConcurrent, the same under  *)
(* fair scheduling of the threads.  A read of a member outside the mutex   *)
(* that guards its writes sees the value before or after a write, as the   *)
(* interleaving of the steps has it.                                       *)
(***************************************************************************)
EXTENDS Integers, Sequences, FiniteSets, TLC

(***************************************************************************)
(* Bounds of the model.                                                    *)
(***************************************************************************)
\* frames the socket's receive queue holds at most
MaxRx == 2
\* messages a queue handed to sendMessageQueue holds at most
MaxBatch == 3

(***************************************************************************)
(* Program constants.                                                      *)
(***************************************************************************)
CAN_MAX_DATA_LENGTH == 8
\* CAN_SFF_MASK of <linux/can.h>, 0x7FF
CAN_SFF_MASK == 2047
\* sizeof(can_frame), the byte count of one read or write
SizeofCanFrame == 16
\* timeout.count() / 1000 and timeout.count() * 1000
MsPerSec == 1000
UsecFactor == 1000

Threads == {"t1", "t2"}
NoThread == "none"

(***************************************************************************)
(* 32-bit identifier words.  A can_id word is kept as its three flag bits  *)
(* (bit 31 CAN_EFF_FLAG, bit 30 CAN_RTR_FLAG, bit 29 CAN_ERR_FLAG) and its *)
(* low 29 bits, so that 0x80000000 needs no integer wider than TLC's.      *)
(***************************************************************************)
Word(eff, rtr, err, bits) == [eff |-> eff, rtr |-> rtr, err |-> err, bits |-> bits]

StdWord(n) == Word(FALSE, FALSE, FALSE, n)

\* canFrame.can_id |= CAN_EFF_FLAG
OrEffFlag(w) == [w EXCEPT !.eff = TRUE]

\* (uint32_t)canId > CAN_SFF_MASK
ExceedsSffMask(w) == w.eff \/ w.rtr \/ w.err \/ w.bits > CAN_SFF_MASK

(***************************************************************************)
(* The message type (CanMessage.hpp, not part of the sources at hand):     *)
(* an identifier, the payload bytes and the raw can_frame.                 *)
(***************************************************************************)
MinInt(a, b) == IF a < b THEN a ELSE b

Payload(len, byte) == [k \in 1..len |-> byte]

CanFrame(idWord, data) ==
    [can_id |-> idWord,
     can_dlc |-> MinInt(Len(data), CAN_MAX_DATA_LENGTH),
     data |-> SubSeq(data, 1, MinInt(Len(data), CAN_MAX_DATA_LENGTH))]

\* CanMessage(canId, frameData)
MakeMessage(idWord, data) ==
    [canId |-> idWord, frameData |-> data, rawFrame |-> CanFrame(idWord, data)]

\* CanMessage{canFrame}
MessageOfFrame(frame) ==
    [canId |-> frame.can_id,
     frameData |-> SubSeq(frame.data, 1, frame.can_dlc),
     rawFrame |-> frame]

getFrameData(message) == message.frameData
getRawFrame(message) == message.rawFrame
getCanId(message) == message.canId

(***************************************************************************)
(* Inputs.                                                                 *)
(***************************************************************************)
\* messages: the identifiers 0x7FF, 0x800 and 0x1FFFFFFF, a word whose EFF
\* flag and one whose RTR flag is set already, and payloads of 9 and 12 bytes
SendMessages ==
    {MakeMessage(StdWord(2047), Payload(8, 170)),
     MakeMessage(StdWord(2048), Payload(2, 170)),
     MakeMessage(StdWord(536870911), Payload(1, 170)),
     MakeMessage(Word(TRUE, FALSE, FALSE, 291), Payload(2, 170)),
     MakeMessage(Word(FALSE, TRUE, FALSE, 18), Payload(0, 0)),
     MakeMessage(StdWord(291), Payload(9, 85)),
     MakeMessage(StdWord(2048), Payload(12, 85))}

\* the messages of a batch: two that can be sent and one that is too long
BatchMessages ==
    {MakeMessage(StdWord(291), Payload(2, 170)),
     MakeMessage(StdWord(2048), Payload(8, 85)),
     MakeMessage(StdWord(291), Payload(9, 85))}

RECURSIVE SeqsUpTo(_, _)
SeqsUpTo(S, n) ==
    IF n = 0 THEN {<<>>}
    ELSE LET shorter == SeqsUpTo(S, n - 1)
         IN  shorter \cup {Append(q, x) : q \in {s \in shorter : Len(s) = n - 1}, x \in S}

Batches == SeqsUpTo(BatchMessages, MaxBatch)

\* frames other nodes put on the bus
BusFrames ==
    {CanFrame(StdWord(291), Payload(1, 17)),
     CanFrame(Word(TRUE, FALSE, FALSE, 2048), Payload(8, 34))}

\* timeouts in milliseconds
Timeouts == {0, 1500, 3000}

\* filter masks and identifiers (0 is "match all" / "use the default")
Masks == {0, 2047}
FilterIds == {0, 291}
SenderIds == {0, 1110}

\* the arguments of the constructor: (canInterface, canProtocol) with the
\* defaults filterMask = 0 and defaultSenderId = 0, and a mask and an
\* identifier given
CtorArgs ==
    {[filterMask |-> 0, defaultSenderId |-> 0],
     [filterMask |-> 2047, defaultSenderId |-> 1110]}

\* the calls of the member functions; the record holds the arguments
Calls ==
    {[op |-> "waitForMessages", timeout |-> ms] : ms \in Timeouts}
      \cup {[op |-> "readMessage"]}
      \cup {[op |-> "sendMessage", message |-> m, forceExtended |-> x] :
              m \in SendMessages, x \in BOOLEAN}
      \cup {[op |-> "sendMessageQueue", messages |-> q, forceExtended |-> x] :
              q \in Batches, x \in BOOLEAN}
      \cup {[op |-> "readQueuedMessages"]}
      \cup {[op |-> "setCanFilterMask", mask |-> m, id |-> n] : m \in Masks, n \in FilterIds}
      \cup {[op |-> "uninitialiseSocketCan"]}
      \cup {[op |-> "setDefaultSenderId", id |-> n] : n \in SenderIds}

CallsOf(ops) == {c \in Calls : c.op \in ops}

\* thread t1 makes the calls, thread t2 makes none
Alone(calls) == [t \in Threads |-> IF t = "t1" THEN calls ELSE {}]

\* thread t1 makes the calls c1 while thread t2 makes the calls c2
Apart(c1, c2) == [t \in Threads |-> IF t = "t1" THEN c1 ELSE c2]

\* the messages threads send side by side
MessageA == MakeMessage(StdWord(291), Payload(2, 170))
MessageB == MakeMessage(StdWord(2048), Payload(8, 85))
MessageC == MakeMessage(StdWord(18), Payload(1, 51))

Close == {[op |-> "uninitialiseSocketCan"]}
Wait(ms) == {[op |-> "waitForMessages", timeout |-> ms]}
Receive == {[op |-> "readMessage"], [op |-> "readQueuedMessages"]}
Send(m) == {[op |-> "sendMessage", message |-> m, forceExtended |-> FALSE]}
SendQueue(q) == {[op |-> "sendMessageQueue", messages |-> q, forceExtended |-> FALSE]}
SetFilter(mask, id) == {[op |-> "setCanFilterMask", mask |-> mask, id |-> id]}
SetSender(id) == {[op |-> "setDefaultSenderId", id |-> id]}

\* what the application does with the driver: the calls each of its threads
\* makes, and whether other nodes send on the bus meanwhile
Workload(name) ==
    CASE name = "receive" ->
           [calls |-> Alone(CallsOf({"waitForMessages", "readMessage", "readQueuedMessages",
                                     "uninitialiseSocketCan"})),
            busy |-> TRUE]
      [] name = "send" ->
           [calls |-> Alone(CallsOf({"sendMessage", "sendMessageQueue",
                                     "uninitialiseSocketCan"})),
            busy |-> FALSE]
      [] name = "filter" ->
           [calls |-> Alone(CallsOf({"setCanFilterMask", "setDefaultSenderId",
                                     "uninitialiseSocketCan"})),
            busy |-> FALSE]
      [] name = "close while receiving" ->
           [calls |-> Apart(Close, Wait(0) \cup Receive), busy |-> TRUE]
      [] name = "close while sending" ->
           [calls |-> Apart(Close, Send(MessageA) \cup SendQueue(<<MessageA, MessageB>>)
                                     \cup SetFilter(2047, 0)),
            busy |-> FALSE]
      [] name = "two receivers" ->
           [calls |-> Apart({[op |-> "readQueuedMessages"]},
                            {[op |-> "readMessage"]} \cup Wait(0) \cup SetFilter(2047, 0)),
            busy |-> TRUE]
      [] name = "receiver and sender" ->
           [calls |-> Apart(Wait(3000) \cup SetFilter(0, 291) \cup SetSender(1110),
                            Send(MessageA) \cup SendQueue(<<MessageA, MessageB>>)),
            busy |-> FALSE]
      [] name = "two senders" ->
           [calls |-> Apart(SendQueue(<<MessageA, MessageB>>),
                            Send(MessageC) \cup SendQueue(<<MessageC, MessageA>>)),
            busy |-> FALSE]

\* the workloads of one thread
Workloads == {"receive", "send", "filter"}

\* the workloads of two threads
Races ==
    {"close while receiving", "close while sending", "two receivers",
     "receiver and sender", "two senders"}

\* descriptors socket() hands out; 0 is handed out when the process has
\* closed its standard input
Descriptors == {0, 3}

\* what an int32_t member no constructor initialises may hold
IndeterminateInts == {-1, 2}

\* what _socketFd may hold when no constructor has set it
IndeterminateFds == {-1, 0, 3}

NoFilter == <<>>


(***************************************************************************)
(* State.                                                                  *)
(***************************************************************************)
VARIABLES
    \* the members of CanDriver
    defaultSenderId, canFilterMask, socketFd, queueSize,
    \* _lock and _lockSend: the thread that holds the mutex, or NoThread
    lock, lockSend,
    \* the constructor: the step of initialiseSocketCan it is at, and the
    \* system calls it has made
    initPc, initLog,
    \* the operating system: the socket and its receive queue
    sock, rxQueue,
    \* the application: its workload; the threads there are, where each one is, the
    \* call it is in, the system call it is in, its locals, what its last
    \* call gave and the system calls that call made
    workload, callers, pc, call, inCall, messages, totalBytesWritten, i, ret, oslog,
    \* the bus: the frames the socket took from the calls that are running or
    \* were made last, in the order it took them, each with the thread that
    \* wrote it
    wire

fields == <<defaultSenderId, canFilterMask, socketFd, queueSize>>
locks == <<lock, lockSend>>
ctorVars == <<initPc, initLog>>
osVars == <<sock, rxQueue>>
locals == <<messages, totalBytesWritten, i>>
threadVars == <<pc, call, inCall, messages, totalBytesWritten, i, ret, oslog>>
appVars == <<workload, callers>>
vars == <<fields, locks, ctorVars, osVars, appVars, threadVars, wire>>

NoSocket == [open |-> FALSE, fd |-> -1, nonblock |-> FALSE, filter |-> NoFilter, bound |-> FALSE]
NoCall == [op |-> "none"]
NoRet == [status |-> "none"]

\* the descriptor names the driver's socket, and the socket is open
IsSocket(fd) == sock.open /\ fd = sock.fd

(***************************************************************************)
(* Construction.  CanDriver(canInterface, canProtocol, filterMask,         *)
(* defaultSenderId) sets the members but _queueSize and runs               *)
(* initialiseSocketCan; CanDriver() sets no member at all.                 *)
(***************************************************************************)
ThreadInit ==
    /\ pc = [t \in Threads |-> "idle"]
    /\ call = [t \in Threads |-> NoCall]
    /\ inCall = [t \in Threads |-> NoCall]
    /\ messages = [t \in Threads |-> <<>>]
    /\ totalBytesWritten = [t \in Threads |-> 0]
    /\ i = [t \in Threads |-> 0]
    /\ ret = [t \in Threads |-> NoRet]
    /\ oslog = [t \in Threads |-> <<>>]

CanDriverCtor ==
    /\ \E a \in CtorArgs :
        /\ defaultSenderId = a.defaultSenderId
        /\ canFilterMask = a.filterMask
    /\ socketFd = -1
    /\ queueSize \in IndeterminateInts
    /\ initPc = "socket"

CanDriverDefaultCtor ==
    /\ defaultSenderId = 0
    /\ canFilterMask \in Masks
    /\ socketFd \in IndeterminateFds
    /\ queueSize \in IndeterminateInts
    /\ initPc = "none"

ObjectInit ==
    /\ CanDriverCtor \/ CanDriverDefaultCtor
    /\ lock = NoThread
    /\ lockSend = NoThread
    /\ initLog = <<>>
    /\ sock = NoSocket
    /\ rxQueue = <<>>
    /\ wire = <<>>
    /\ ThreadInit

Init ==
    /\ ObjectInit
    /\ workload \in Workloads
    /\ callers = {"t1"}

\* two threads share the object
ConcurrentInit ==
    /\ ObjectInit
    /\ workload \in Races
    /\ callers = Threads

\* the constructor has returned: the object can be called
Constructed == initPc \in {"done", "none"}

(***************************************************************************)
(* initialiseSocketCan, one action per system call.                        *)
(***************************************************************************)
InitOrderBindFirst == <<"socket", "ioctl", "fcntl", "bind", "filter">>

\* the order of the steps of initialiseSocketCan
InitOrder == <<"socket", "ioctl", "fcntl", "filter", "bind">>

InitStepAfter(step) ==
    LET k == CHOOSE n \in 1..Len(InitOrder) : InitOrder[n] = step
    IN  IF k = Len(InitOrder) THEN "done" ELSE InitOrder[k + 1]

InitCall(fn, res) == [fn |-> fn, fd |-> socketFd, res |-> res]

FilterCanIdVerbatim(id, senderId) == id

\* can_id of the filter: id, or _defaultSenderId when id is 0
FilterCanId(id, senderId) == IF id # 0 THEN id ELSE senderId

\* _socketFd = socket(PF_CAN, SOCK_RAW, _canProtocol)
InitSocket ==
    /\ initPc = "socket"
    /\ \E r \in Descriptors \cup {-1} :
        /\ socketFd' = r
        /\ initLog' = Append(initLog, [fn |-> "socket", fd |-> r, res |-> r])
        /\ IF r = -1
             THEN /\ initPc' = "failed"
                  /\ UNCHANGED sock
             ELSE /\ initPc' = InitStepAfter("socket")
                  /\ sock' = [NoSocket EXCEPT !.open = TRUE, !.fd = r]
    /\ UNCHANGED <<defaultSenderId, canFilterMask, queueSize, locks, rxQueue, appVars, wire, threadVars>>

\* ioctl(_socketFd, SIOCGIFINDEX, &ifaceRequest)
InitIoctl ==
    /\ initPc = "ioctl"
    /\ \E r \in {0, -1} :
        /\ initLog' = Append(initLog, InitCall("ioctl", r))
        /\ initPc' = IF r = -1 THEN "failed" ELSE InitStepAfter("ioctl")
    /\ UNCHANGED <<fields, locks, osVars, appVars, wire, threadVars>>

\* fcntl(F_GETFL), fcntl(F_SETFL, fdOptions | O_NONBLOCK); the result is not looked at
InitFcntl ==
    /\ initPc = "fcntl"
    /\ \E r \in {0, -1} :
        /\ initLog' = Append(initLog, InitCall("fcntl", r))
        /\ sock' = IF r = 0 /\ IsSocket(socketFd) THEN [sock EXCEPT !.nonblock = TRUE] ELSE sock
        /\ initPc' = InitStepAfter("fcntl")
    /\ UNCHANGED <<fields, locks, rxQueue, appVars, wire, threadVars>>

\* setCanFilterMask(_canFilterMask, _defaultSenderId)
InitFilter ==
    /\ initPc = "filter"
    /\ lock = NoThread
    /\ IF socketFd < 0
         THEN /\ initPc' = "failed"
              /\ UNCHANGED <<initLog, sock, canFilterMask>>
         ELSE \E r \in {0, -1} :
              /\ initLog' = Append(initLog,
                     InitCall("setsockopt", r) @@
                       [can_id |-> FilterCanId(defaultSenderId, defaultSenderId),
                        can_mask |-> canFilterMask])
              /\ IF r = 0 /\ IsSocket(socketFd)
                   THEN /\ sock' = [sock EXCEPT !.filter =
                                      <<FilterCanId(defaultSenderId, defaultSenderId), canFilterMask>>]
                        /\ canFilterMask' = canFilterMask
                        /\ initPc' = InitStepAfter("filter")
                   ELSE /\ initPc' = "failed"
                        /\ UNCHANGED <<sock, canFilterMask>>
    /\ UNCHANGED <<defaultSenderId, socketFd, queueSize, locks, rxQueue, appVars, wire, threadVars>>

\* bind(_socketFd, &address, sizeof(address))
InitBind ==
    /\ initPc = "bind"
    /\ \E r \in {0, -1} :
        /\ initLog' = Append(initLog, InitCall("bind", r))
        /\ IF r = 0 /\ IsSocket(socketFd)
             THEN /\ sock' = [sock EXCEPT !.bound = TRUE]
                  /\ initPc' = InitStepAfter("bind")
             ELSE /\ initPc' = "failed"
                  /\ UNCHANGED sock
    /\ UNCHANGED <<fields, locks, rxQueue, appVars, wire, threadVars>>

(***************************************************************************)
(* The bus: a frame arrives at the bound socket.                           *)
(***************************************************************************)
FrameArrives ==
    /\ Workload(workload).busy
    /\ sock.open /\ sock.bound
    /\ Len(rxQueue) < MaxRx
    /\ \E f \in BusFrames : rxQueue' = Append(rxQueue, f)
    /\ UNCHANGED <<fields, locks, ctorVars, sock, appVars, wire, threadVars>>

(***************************************************************************)
(* Calls.  A thread that is idle calls a member function of the object     *)
(* once the constructor has returned.                                      *)
(***************************************************************************)
EntryPc(op) ==
    CASE op = "waitForMessages" -> "w_check"
      [] op = "readMessage" -> "r_lock"
      [] op = "sendMessage" -> "s_check"
      [] op = "sendMessageQueue" -> "q_check"
      [] op = "readQueuedMessages" -> "b_check"
      [] op = "setCanFilterMask" -> "f_check"
      [] op = "uninitialiseSocketCan" -> "c_lock"
      [] op = "setDefaultSenderId" -> "d_set"

Ok(value) == [status |-> "ok", value |-> value]

\* the exceptions: CanInitException and CanCloseException carry a message,
\* CanException and InvalidSocketException the message and _socketFd
Exc(class, what) == [status |-> class, what |-> what]
ExcFd(class, what) == [status |-> class, what |-> what, socket |-> socketFd]

InvalidSocket == ExcFd("InvalidSocketException", "Invalid socket!")

\* the call of t ends with r: a value returned or an exception thrown
Return(t, r) ==
    /\ pc' = [pc EXCEPT ![t] = "idle"]
    /\ ret' = [ret EXCEPT ![t] = r]
    /\ inCall' = [inCall EXCEPT ![t] = NoCall]
    /\ messages' = [messages EXCEPT ![t] = <<>>]
    /\ totalBytesWritten' = [totalBytesWritten EXCEPT ![t] = 0]
    /\ i' = [i EXCEPT ![t] = 0]

\* t goes on to the step p of its call
Goto(t, p) ==
    /\ pc' = [pc EXCEPT ![t] = p]
    /\ UNCHANGED <<ret, inCall, locals>>

\* t enters the system call c
Enter(t, p, c) ==
    /\ pc' = [pc EXCEPT ![t] = p]
    /\ inCall' = [inCall EXCEPT ![t] = c]
    /\ UNCHANGED ret

\* the system call t is in has returned res
Logged(t, res) == Append(oslog[t], [inCall[t] EXCEPT !.res = res])

SysCall(fn) == [fn |-> fn, fd |-> socketFd, res |-> "pending"]

Call(t) ==
    /\ Constructed
    /\ t \in callers
    /\ pc[t] = "idle"
    /\ \E c \in Workload(workload).calls[t] :
        /\ call' = [call EXCEPT ![t] = c]
        /\ pc' = [pc EXCEPT ![t] = EntryPc(c.op)]
    /\ ret' = [ret EXCEPT ![t] = NoRet]
    /\ oslog' = [oslog EXCEPT ![t] = <<>>]
    /\ wire' = SelectSeq(wire, LAMBDA e : e.by # t)
    /\ UNCHANGED <<fields, locks, ctorVars, osVars, appVars, inCall, locals>>

(***************************************************************************)
(* The two mutexes.  unique_lock<mutex> locky(m) waits until m is free and *)
(* takes it; it gives m back when the function is left, by a return or by  *)
(* an exception.                                                           *)
(***************************************************************************)
LockFreeAlways == TRUE

\* unique_lock<mutex> locky(_lock) can be taken
LockFree == lock = NoThread

LockSendFreeWithLock == lockSend = NoThread /\ lock = NoThread

\* unique_lock<mutex> locky(_lockSend) can be taken
LockSendFree == lockSend = NoThread

UnwindKeeps(holder) == holder

\* the holder of a mutex after an exception has left the function that
\* locked it
Unwind(holder) == NoThread

SocketInvalidBelowMinusOne(fd) == fd < -1

\* if (_socketFd < 0) throw InvalidSocketException
SocketInvalid(fd) == fd < 0

(***************************************************************************)
(* setDefaultSenderId                                                      *)
(***************************************************************************)
SetDefaultSenderId(t) ==
    /\ pc[t] = "d_set"
    /\ defaultSenderId' = call[t].id
    /\ Return(t, Ok(TRUE))
    /\ UNCHANGED <<canFilterMask, socketFd, queueSize, locks, ctorVars, osVars, appVars, wire, call, oslog>>

(***************************************************************************)
(* waitForMessages                                                         *)
(***************************************************************************)
\* waitTime.tv_sec = timeout.count() / 1000; waitTime.tv_usec = timeout.count() * 1000
WaitTime(timeout) == [tv_sec |-> timeout \div MsPerSec, tv_usec |-> timeout * UsecFactor]

WaitResultNotNegative(n) == n >= 0

\* return _queueSize > 0
WaitResult(n) == n > 0

\* select on one descriptor: the number of ready descriptors (1 when a frame
\* is queued, 0 at the end of the wait), or -1; with _socketFd = -1 FD_SET
\* writes outside the set and select is given no descriptor at all, so it
\* may as well wait and return 0
SelectResults(fd) ==
    IF fd < 0 THEN {0, -1}
    ELSE IF ~IsSocket(fd) THEN {-1}
    ELSE IF rxQueue # <<>> THEN {1, -1}
    ELSE {0, -1}

WaitCheck(t) ==
    /\ pc[t] = "w_check"
    /\ IF SocketInvalid(socketFd)
         THEN Return(t, InvalidSocket)
         ELSE Goto(t, "w_lock")
    /\ UNCHANGED <<fields, locks, ctorVars, osVars, appVars, wire, call, oslog>>

WaitLockSelect(t) ==
    /\ pc[t] = "w_lock"
    /\ LockFree
    /\ lock' = t
    /\ Enter(t, "in_select",
             SysCall("select") @@ WaitTime(call[t].timeout))
    /\ UNCHANGED <<fields, lockSend, ctorVars, osVars, appVars, wire, call, locals, oslog>>

SelectReturn(t) ==
    /\ pc[t] = "in_select"
    /\ \E r \in SelectResults(inCall[t].fd) :
        /\ queueSize' = r
        /\ oslog' = [oslog EXCEPT ![t] = Logged(t, r)]
        /\ Return(t, Ok(WaitResult(r)))
    /\ lock' = NoThread
    /\ UNCHANGED <<defaultSenderId, canFilterMask, socketFd, lockSend, ctorVars, osVars, appVars, wire, call>>

(***************************************************************************)
(* readMessage, readMessageLock and readQueuedMessages                     *)
(***************************************************************************)
\* read of one can_frame: 16 bytes and the oldest frame, or -1; on a socket
\* that blocks, the read of an empty queue waits for a frame
ReadResults(fd) ==
    IF ~IsSocket(fd) THEN {-1}
    ELSE IF rxQueue # <<>> THEN {SizeofCanFrame, -1}
    ELSE IF sock.nonblock THEN {-1}
    ELSE {}

ReadFailed == ExcFd("CanException", "FAILED to read from CAN!")

ReadErrorNever(readBytes) == FALSE

\* if (0 > readBytes) throw CanException
ReadError(readBytes) == 0 > readBytes

\* memset(&canFrame, 0, sizeof(can_frame)): the buffer before the read
ZeroFrame == [can_id |-> StdWord(0), can_dlc |-> 0, data |-> <<>>]

BatchLockHolderNone(t) == NoThread

\* the holder of _lock between the reads of readQueuedMessages: its
\* unique_lock lives to the end of the function, and readMessageLock(false)
\* takes no lock
BatchLockHolder(t) == t

\* readMessageLock(true) up to its read
ReadLock(t) ==
    /\ pc[t] = "r_lock"
    /\ LockFree
    /\ IF SocketInvalid(socketFd)
         THEN /\ Return(t, InvalidSocket)
              /\ UNCHANGED lock
         ELSE /\ lock' = t
              /\ Enter(t, "in_read", SysCall("read"))
              /\ UNCHANGED locals
    /\ UNCHANGED <<fields, lockSend, ctorVars, osVars, appVars, wire, call, oslog>>

BatchReadCheck(t) ==
    /\ pc[t] = "b_check"
    /\ IF SocketInvalid(socketFd)
         THEN Return(t, InvalidSocket)
         ELSE Goto(t, "b_lock")
    /\ UNCHANGED <<fields, locks, ctorVars, osVars, appVars, wire, call, oslog>>

\* for (i = n; 0 < i; --i) messages.emplace(readMessageLock(false)), at the
\* test of the loop with n reads left and the messages got read so far;
\* the thread holds _lock
ReadLoop(t, n, got) ==
    IF 0 < n
      THEN IF SocketInvalid(socketFd)
             THEN /\ Return(t, InvalidSocket)
                  /\ lock' = Unwind(t)
             ELSE /\ Enter(t, "in_read", SysCall("read"))
                  /\ i' = [i EXCEPT ![t] = n]
                  /\ messages' = [messages EXCEPT ![t] = got]
                  /\ UNCHANGED totalBytesWritten
                  /\ lock' = BatchLockHolder(t)
      ELSE /\ Return(t, Ok(got))
           /\ lock' = NoThread

BatchReadLock(t) ==
    /\ pc[t] = "b_lock"
    /\ LockFree
    /\ ReadLoop(t, queueSize, <<>>)
    /\ UNCHANGED <<fields, lockSend, ctorVars, osVars, appVars, wire, call, oslog>>

ReadReturn(t) ==
    /\ pc[t] = "in_read"
    /\ \E r \in ReadResults(inCall[t].fd) :
        /\ oslog' = [oslog EXCEPT ![t] = Logged(t, r)]
        /\ rxQueue' = IF r < 0 THEN rxQueue ELSE Tail(rxQueue)
        /\ LET canFrame == IF r < 0 THEN ZeroFrame ELSE Head(rxQueue)
           IN  IF ReadError(r)
                 THEN /\ Return(t, ReadFailed)
                      /\ lock' = Unwind(t)
                 ELSE IF call[t].op = "readMessage"
                        THEN /\ Return(t, Ok(MessageOfFrame(canFrame)))
                             /\ lock' = NoThread
                        ELSE ReadLoop(t, i[t] - 1, Append(messages[t], MessageOfFrame(canFrame)))
    /\ UNCHANGED <<fields, lockSend, ctorVars, sock, appVars, wire, call>>

(***************************************************************************)
(* sendMessage and sendMessageQueue                                        *)
(***************************************************************************)
PayloadTooLongOver9(message) == Len(getFrameData(message)) > CAN_MAX_DATA_LENGTH + 1

\* message.getFrameData().size() > CAN_MAX_DATA_LENGTH
PayloadTooLong(message) == Len(getFrameData(message)) > CAN_MAX_DATA_LENGTH

FrameToSendForcedOnly(message, forceExtended) ==
    IF forceExtended
      THEN [getRawFrame(message) EXCEPT !.can_id = OrEffFlag(@)]
      ELSE getRawFrame(message)

\* canFrame = message.getRawFrame();
\* if (forceExtended || (uint32_t)message.getCanId() > CAN_SFF_MASK) canFrame.can_id |= CAN_EFF_FLAG
FrameToSend(message, forceExtended) ==
    IF forceExtended \/ ExceedsSffMask(getCanId(message))
      THEN [getRawFrame(message) EXCEPT !.can_id = OrEffFlag(@)]
      ELSE getRawFrame(message)

\* write of one can_frame: 16 bytes, or -1; a socket that is not bound has
\* no interface to send on
WriteResults(fd) ==
    IF IsSocket(fd) /\ sock.bound THEN {SizeofCanFrame, -1} ELSE {-1}

TooLong == ExcFd("CanException", "INVALID data length!")
WriteFailed == ExcFd("CanException", "FAILED to write data to socket!")

NextOfQueueLast(q) == q[Len(q)]

\* messages.front()
NextOfQueue(q) == Head(q)

RestOfQueueTwoLess(q) == IF Len(q) > 1 THEN Tail(Tail(q)) ELSE <<>>

\* messages.pop()
RestOfQueue(q) == Tail(q)

BatchCheck(t) ==
    /\ pc[t] = "q_check"
    /\ IF SocketInvalid(socketFd)
         THEN Return(t, InvalidSocket)
         ELSE IF call[t].messages = <<>>
                THEN Return(t, Ok(0))
                ELSE /\ pc' = [pc EXCEPT ![t] = "s_check"]
                     /\ messages' = [messages EXCEPT ![t] = call[t].messages]
                     /\ totalBytesWritten' = [totalBytesWritten EXCEPT ![t] = 0]
                     /\ UNCHANGED <<ret, inCall, i>>
    /\ UNCHANGED <<fields, locks, ctorVars, osVars, appVars, wire, call, oslog>>

SendCheck(t) ==
    /\ pc[t] = "s_check"
    /\ IF SocketInvalid(socketFd)
         THEN Return(t, InvalidSocket)
         ELSE Goto(t, "s_lock")
    /\ UNCHANGED <<fields, locks, ctorVars, osVars, appVars, wire, call, oslog>>

SendLockWrite(t) ==
    /\ pc[t] = "s_lock"
    /\ LockSendFree
    /\ LET message == IF call[t].op = "sendMessage"
                        THEN call[t].message
                        ELSE NextOfQueue(messages[t])
       IN  IF PayloadTooLong(message)
             THEN /\ Return(t, TooLong)
                  /\ UNCHANGED lockSend
             ELSE /\ lockSend' = t
                  /\ Enter(t, "in_write",
                           SysCall("write") @@
                             [frame |-> FrameToSend(message, call[t].forceExtended)])
                  /\ UNCHANGED locals
    /\ UNCHANGED <<fields, lock, ctorVars, osVars, appVars, wire, call, oslog>>

WriteReturn(t) ==
    /\ pc[t] = "in_write"
    /\ \E r \in WriteResults(inCall[t].fd) :
        /\ oslog' = [oslog EXCEPT ![t] = Logged(t, r)]
        /\ wire' = IF r = -1 THEN wire ELSE Append(wire, [by |-> t, frame |-> inCall[t].frame])
        /\ lockSend' = IF r = -1 THEN Unwind(t) ELSE NoThread
        /\ IF r = -1
             THEN Return(t, WriteFailed)
             ELSE IF call[t].op = "sendMessage"
                    THEN Return(t, Ok(r))
                    ELSE IF RestOfQueue(messages[t]) = <<>>
                           THEN Return(t, Ok(totalBytesWritten[t] + r))
                           ELSE /\ pc' = [pc EXCEPT ![t] = "s_check"]
                                /\ inCall' = [inCall EXCEPT ![t] = NoCall]
                                /\ messages' = [messages EXCEPT ![t] = RestOfQueue(@)]
                                /\ totalBytesWritten' = [totalBytesWritten EXCEPT ![t] = @ + r]
                                /\ UNCHANGED <<ret, i>>
    /\ UNCHANGED <<fields, lock, ctorVars, osVars, appVars, call>>

(***************************************************************************)
(* setCanFilterMask                                                        *)
(***************************************************************************)
SetsockoptResults(fd) == IF IsSocket(fd) THEN {0, -1} ELSE {-1}

FilterFailed == Exc("CanInitException", "FAILED to set CAN filter mask")

FilterCheck(t) ==
    /\ pc[t] = "f_check"
    /\ IF SocketInvalid(socketFd)
         THEN Return(t, InvalidSocket)
         ELSE Goto(t, "f_lock")
    /\ UNCHANGED <<fields, locks, ctorVars, osVars, appVars, wire, call, oslog>>

FilterLockSetsockopt(t) ==
    /\ pc[t] = "f_lock"
    /\ LockFree
    /\ lock' = t
    /\ Enter(t, "in_setsockopt",
             SysCall("setsockopt") @@
               [can_id |-> FilterCanId(call[t].id, defaultSenderId), can_mask |-> call[t].mask])
    /\ UNCHANGED <<fields, lockSend, ctorVars, osVars, appVars, wire, call, locals, oslog>>

SetsockoptReturn(t) ==
    /\ pc[t] = "in_setsockopt"
    /\ \E r \in SetsockoptResults(inCall[t].fd) :
        /\ oslog' = [oslog EXCEPT ![t] = Logged(t, r)]
        /\ lock' = IF r = -1 THEN Unwind(t) ELSE NoThread
        /\ IF r = -1
             THEN /\ Return(t, FilterFailed)
                  /\ UNCHANGED <<sock, canFilterMask>>
             ELSE /\ sock' = [sock EXCEPT !.filter = <<inCall[t].can_id, inCall[t].can_mask>>]
                  /\ canFilterMask' = call[t].mask
                  /\ Return(t, Ok(TRUE))
    /\ UNCHANGED <<defaultSenderId, socketFd, queueSize, lockSend, ctorVars, rxQueue, appVars, wire, call>>

(***************************************************************************)
(* uninitialiseSocketCan                                                   *)
(***************************************************************************)
\* if (_socketFd <= 0) throw CanCloseException
CloseRefuses(fd) == fd <= 0

SocketFdAfterCloseKept(fd) == fd

\* _socketFd = -1
SocketFdAfterClose(fd) == -1

\* close: 0 or -1; the descriptor may be gone also when close reports an error
CloseResults(fd) ==
    IF IsSocket(fd)
      THEN {[res |-> 0, released |-> TRUE], [res |-> -1, released |-> TRUE],
            [res |-> -1, released |-> FALSE]}
      ELSE {[res |-> -1, released |-> FALSE]}

CloseInvalid == Exc("CanCloseException", "Cannot close invalid socket!")
CloseFailed == Exc("CanCloseException", "FAILED to close CAN socket!")

CloseLock(t) ==
    /\ pc[t] = "c_lock"
    /\ LockFree
    /\ IF CloseRefuses(socketFd)
         THEN /\ Return(t, CloseInvalid)
              /\ UNCHANGED lock
         ELSE /\ lock' = t
              /\ Enter(t, "in_close", SysCall("close"))
              /\ UNCHANGED locals
    /\ UNCHANGED <<fields, lockSend, ctorVars, osVars, appVars, wire, call, oslog>>

CloseReturn(t) ==
    /\ pc[t] = "in_close"
    /\ \E r \in CloseResults(inCall[t].fd) :
        /\ oslog' = [oslog EXCEPT ![t] = Logged(t, r.res)]
        /\ lock' = IF r.res = -1 THEN Unwind(t) ELSE NoThread
        /\ IF r.released
             THEN /\ sock' = [sock EXCEPT !.open = FALSE]
                  /\ rxQueue' = <<>>
             ELSE UNCHANGED osVars
        /\ IF r.res = -1
             THEN /\ Return(t, CloseFailed)
                  /\ UNCHANGED socketFd
             ELSE /\ socketFd' = SocketFdAfterClose(socketFd)
                  /\ Return(t, Ok(TRUE))
    /\ UNCHANGED <<defaultSenderId, canFilterMask, queueSize, lockSend, ctorVars, appVars, wire, call>>

(***************************************************************************)
(* The specification.                                                      *)
(***************************************************************************)
Next ==
    \/ InitSocket
    \/ InitIoctl
    \/ InitFcntl
    \/ InitFilter
    \/ InitBind
    \/ FrameArrives
    \/ \E t \in Threads : Call(t)
    \/ \E t \in Threads : SetDefaultSenderId(t)
    \/ \E t \in Threads : WaitCheck(t)
    \/ \E t \in Threads : WaitLockSelect(t)
    \/ \E t \in Threads : SelectReturn(t)
    \/ \E t \in Threads : ReadLock(t)
    \/ \E t \in Threads : BatchReadCheck(t)
    \/ \E t \in Threads : BatchReadLock(t)
    \/ \E t \in Threads : ReadReturn(t)
    \/ \E t \in Threads : BatchCheck(t)
    \/ \E t \in Threads : SendCheck(t)
    \/ \E t \in Threads : SendLockWrite(t)
    \/ \E t \in Threads : WriteReturn(t)
    \/ \E t \in Threads : FilterCheck(t)
    \/ \E t \in Threads : FilterLockSetsockopt(t)
    \/ \E t \in Threads : SetsockoptReturn(t)
    \/ \E t \in Threads : CloseLock(t)
    \/ \E t \in Threads : CloseReturn(t)

Spec == Init /\ [][Next]_vars

Concurrent == ConcurrentInit /\ [][Next]_vars

\* the step thread t can take when it is in a call
ThreadStep(t) ==
    \/ SetDefaultSenderId(t)
    \/ WaitCheck(t) \/ WaitLockSelect(t) \/ SelectReturn(t)
    \/ ReadLock(t) \/ BatchReadCheck(t) \/ BatchReadLock(t) \/ ReadReturn(t)
    \/ BatchCheck(t) \/ SendCheck(t) \/ SendLockWrite(t) \/ WriteReturn(t)
    \/ FilterCheck(t) \/ FilterLockSetsockopt(t) \/ SetsockoptReturn(t)
    \/ CloseLock(t) \/ CloseReturn(t)

\* fair scheduling: a thread that can go on again and again does go on, be
\* it to take a mutex that is free again and again or to come back from a
\* system call that can return
FairConcurrent ==
    ConcurrentInit /\ [][Next]_vars /\ \A t \in Threads : SF_vars(ThreadStep(t))

(***************************************************************************)
(* Properties.                                                             *)
(***************************************************************************)
\* thread t takes a step
Steps(t) == pc'[t] # pc[t]

\* the last system call of the call thread t is in, or has just left
LastCall(t) == oslog[t][Len(oslog[t])]

\* the steps at which the six I/O and filter functions test the descriptor
GuardedEntries == {"w_check", "r_lock", "s_check", "q_check", "b_check", "f_check"}

\* C1: whenever _socketFd < 0, waitForMessages, readMessage, readQueuedMessages,
\* sendMessage, sendMessageQueue and setCanFilterMask end at their test of the
\* descriptor with InvalidSocketException: no system call is entered, no lock
\* is kept, and neither the members nor the socket change.
C1_InvalidSocketRejected ==
    [][\A t \in Threads :
         (socketFd < 0 /\ pc[t] \in GuardedEntries /\ Steps(t))
           => /\ pc'[t] = "idle"
              /\ ret'[t] = [status |-> "InvalidSocketException",
                            what |-> "Invalid socket!", socket |-> socketFd]
              /\ inCall'[t] = NoCall
              /\ oslog'[t] = oslog[t]
              /\ UNCHANGED <<fields, locks, osVars>>]_vars

\* a channel that was opened and closed again refuses setCanFilterMask
C1_Witness ==
    \E t \in Threads :
        /\ pc[t] = "idle"
        /\ call[t].op = "setCanFilterMask"
        /\ ret[t].status = "InvalidSocketException"
        /\ oslog[t] = <<>>
        /\ initPc = "done" /\ ~sock.open /\ socketFd = -1

\* C2: a close whose OS close returns 0 sets _socketFd to -1; a close called
\* while _socketFd is -1 throws CanCloseException without calling OS close
\* and leaves _socketFd at -1; a close whose OS close returns -1 throws
\* CanCloseException and leaves _socketFd as it was.
C2_CloseResets ==
    [][\A t \in Threads :
         /\ (pc[t] = "in_close" /\ Steps(t))
              => /\ pc'[t] = "idle"
                 /\ LastCall(t)'.fn = "close"
                 /\ IF LastCall(t)'.res = 0
                      THEN ret'[t].status = "ok" /\ socketFd' = -1
                      ELSE ret'[t].status = "CanCloseException" /\ socketFd' = socketFd
         /\ (pc[t] = "c_lock" /\ socketFd = -1 /\ Steps(t))
              => /\ pc'[t] = "idle"
                 /\ ret'[t].status = "CanCloseException"
                 /\ oslog'[t] = <<>>
                 /\ socketFd' = -1
                 /\ UNCHANGED osVars]_vars

\* the second of two closes: the socket was open, is closed, and the close
\* at hand was refused
C2_Witness ==
    \E t \in Threads :
        /\ pc[t] = "idle"
        /\ call[t].op = "uninitialiseSocketCan"
        /\ ret[t] = [status |-> "CanCloseException", what |-> "Cannot close invalid socket!"]
        /\ oslog[t] = <<>>
        /\ initPc = "done" /\ sock.fd > 0 /\ ~sock.open /\ socketFd = -1

\* C3 (as claimed): on a channel initialiseSocketCan has opened, close calls
\* OS close for every _socketFd >= 0, 0 included, and refuses only when
\* _socketFd < 0.
C3_CloseAcceptsEveryOpenHandle ==
    [][\A t \in Threads :
         (initPc = "done" /\ pc[t] = "c_lock" /\ Steps(t))
           => IF socketFd >= 0
                THEN pc'[t] = "in_close" /\ inCall'[t].fn = "close"
                ELSE pc'[t] = "idle" /\ ret'[t].status = "CanCloseException"]_vars

\* C4 (as claimed): initialiseSocketCan either ends with an open socket that
\* is non-blocking, filtered and bound, or fails and leaves _socketFd = -1
\* and no socket open; outside a running initialiseSocketCan an open
\* _socketFd never names a socket that is unbound, blocking or unfiltered.
C4_InitAllOrNothing ==
    /\ initPc = "failed" => socketFd = -1 /\ ~sock.open
    /\ (initPc \in {"done", "failed"} /\ socketFd >= 0 /\ IsSocket(socketFd))
         => sock.bound /\ sock.nonblock /\ sock.filter # NoFilter

\* C5: initialiseSocketCan installs the filter (the constructor's mask, the
\* default sender id) before it binds: every bind it attempts follows a
\* setsockopt that succeeded, and a bound socket has a filter.
C5_FilterBeforeBind ==
    /\ \A k \in 1..Len(initLog) :
         /\ initLog[k].fn = "bind"
              => \E j \in 1..(k - 1) : initLog[j].fn = "setsockopt" /\ initLog[j].res = 0
         /\ (initLog[k].fn = "setsockopt" /\ ~Constructed)
              => initLog[k].can_id = defaultSenderId /\ initLog[k].can_mask = canFilterMask
    /\ sock.bound => sock.filter # NoFilter
    /\ initPc = "bind" => sock.filter = <<defaultSenderId, canFilterMask>>

\* the constructor given mask 0x7FF and sender id 0x456 has bound the socket
C5_Witness ==
    /\ initPc = "done"
    /\ sock.bound
    /\ sock.filter = <<1110, 2047>>
    /\ Len(initLog) = 5 /\ initLog[4].fn = "setsockopt" /\ initLog[5].fn = "bind"

\* C6: a sendMessage whose payload is longer than 8 bytes never enters write;
\* with the socket open it ends with the CanException "INVALID data length!"
\* and changes neither the members nor the socket.
C6_OversizeRejected ==
    [][\A t \in Threads :
         (call'[t].op = "sendMessage" /\ Len(call'[t].message.frameData) > 8)
           => /\ pc'[t] # "in_write"
              /\ oslog'[t] = <<>>
              /\ (pc[t] = "s_lock" /\ Steps(t))
                   => /\ pc'[t] = "idle"
                      /\ ret'[t] = [status |-> "CanException",
                                    what |-> "INVALID data length!", socket |-> socketFd]
                      /\ UNCHANGED <<fields, locks, osVars>>]_vars

C6_Witness ==
    \E t \in Threads :
        /\ pc[t] = "idle"
        /\ call[t].op = "sendMessage"
        /\ Len(call[t].message.frameData) = 9
        /\ ret[t].status = "CanException"
        /\ oslog[t] = <<>>
        /\ IsSocket(socketFd) /\ sock.bound

\* the identifier, as an unsigned 32-bit number, is above 0x7FF
Above7FF(w) == w.eff \/ w.rtr \/ w.err \/ w.bits > 2047

\* a frame with its EFF flag left aside
FlagAside(frame) == [frame EXCEPT !.can_id.eff = FALSE]

\* C7: the frame sendMessage writes has the EFF flag set exactly when
\* forceExtended is set or the identifier is above 0x7FF; its other
\* identifier bits, its DLC and its data are those of the raw frame.
C7_ExtendedFlagDerived ==
    \A t \in Threads :
        (pc[t] = "in_write" /\ call[t].op = "sendMessage")
          => LET m == call[t].message
                 f == inCall[t].frame
             IN  /\ f.can_id.eff = (call[t].forceExtended \/ Above7FF(m.canId))
                 /\ (m.canId.bits <= 2047 /\ ~m.canId.eff /\ ~m.canId.rtr /\ ~m.canId.err
                       /\ ~call[t].forceExtended) => ~f.can_id.eff
                 /\ f.can_id.rtr = m.rawFrame.can_id.rtr
                 /\ f.can_id.err = m.rawFrame.can_id.err
                 /\ f.can_id.bits = m.rawFrame.can_id.bits
                 /\ f.can_dlc = m.rawFrame.can_dlc
                 /\ f.data = m.rawFrame.data

\* identifier 0x800, forceExtended not set: the flag is set all the same
C7_Witness ==
    \E t \in Threads :
        /\ pc[t] = "in_write"
        /\ call[t].op = "sendMessage"
        /\ ~call[t].forceExtended
        /\ call[t].message.canId = StdWord(2048)
        /\ inCall[t].frame.can_id = Word(TRUE, FALSE, FALSE, 2048)

RECURSIVE SumOfResults(_)
SumOfResults(log) == IF log = <<>> THEN 0 ELSE Head(log).res + SumOfResults(Tail(log))

\* C8: sendMessageQueue writes the messages in the order of the queue, one
\* write each; it returns the sum of the byte counts; at the first message
\* that is too long or whose write fails it ends with that exception, the
\* messages before it written once each and none after it attempted.
C8_BatchFifoUntilFailure ==
    \A t \in Threads :
        call[t].op = "sendMessageQueue"
          => LET q == call[t].messages
                 x == call[t].forceExtended
                 log == oslog[t]
                 n == Len(log)
             IN  /\ n <= Len(q)
                 /\ \A k \in 1..n :
                      /\ log[k].fn = "write"
                      /\ FlagAside(log[k].frame) = FlagAside(q[k].rawFrame)
                      /\ log[k].frame.can_id.eff = (x \/ Above7FF(q[k].canId))
                      /\ Len(q[k].frameData) <= 8
                      /\ k < n => log[k].res >= 0
                 /\ pc[t] = "in_write"
                      => /\ n < Len(q)
                         /\ FlagAside(inCall[t].frame) = FlagAside(q[n + 1].rawFrame)
                         /\ \A k \in 1..n : log[k].res >= 0
                 /\ (pc[t] = "idle" /\ ret[t].status = "ok")
                      => /\ n = Len(q)
                         /\ \A k \in 1..n : log[k].res >= 0
                         /\ ret[t].value = SumOfResults(log)
                 /\ (pc[t] = "idle" /\ ret[t].status = "CanException")
                      => IF ret[t].what = "INVALID data length!"
                           THEN /\ n < Len(q)
                                /\ Len(q[n + 1].frameData) > 8
                                /\ \A k \in 1..n : log[k].res >= 0
                           ELSE /\ n >= 1
                                /\ log[n].res = -1
                 /\ (pc[t] = "idle" /\ ret[t].status = "InvalidSocketException")
                      => \A k \in 1..n : log[k].res >= 0

\* three messages, the second too long: the first is written, the third is not
C8_Witness ==
    \E t \in Threads :
        /\ pc[t] = "idle"
        /\ call[t].op = "sendMessageQueue"
        /\ Len(call[t].messages) = 3
        /\ Len(call[t].messages[2].frameData) > 8
        /\ ret[t].status = "CanException"
        /\ Len(oslog[t]) = 1
        /\ oslog[t][1].res = 16

\* C9 (as claimed): the count a successful waitForMessages stores in
\* _queueSize is the number of frames queued on the socket.
C9_WaitCountsQueuedFrames ==
    [][\A t \in Threads :
         (pc[t] = "in_select" /\ Steps(t) /\ queueSize' >= 0)
           => queueSize' = Len(rxQueue)]_vars

\* C10: waitForMessages stores the result of select in _queueSize and
\* returns true exactly when that result is above 0; with timeout 0 it hands
\* select a zero wait time, and with no frame queued it returns false.
C10_WaitStoresReadiness ==
    [][\A t \in Threads :
         /\ (pc[t] = "in_select" /\ Steps(t))
              => /\ pc'[t] = "idle"
                 /\ LastCall(t)'.fn = "select"
                 /\ queueSize' = LastCall(t)'.res
                 /\ ret'[t] = [status |-> "ok", value |-> (LastCall(t)'.res > 0)]
                 /\ LastCall(t)'.res \in {-1, 0} => ret'[t].value = FALSE
                 /\ (call[t].timeout = 0 /\ rxQueue = <<>>) => ret'[t].value = FALSE
         /\ (pc'[t] = "in_select" /\ call'[t].timeout = 0)
              => inCall'[t].tv_sec = 0 /\ inCall'[t].tv_usec = 0]_vars

\* a poll of the open socket with no frame queued
C10_Witness ==
    \E t \in Threads :
        /\ pc[t] = "idle"
        /\ call[t].op = "waitForMessages"
        /\ call[t].timeout = 0
        /\ ret[t] = [status |-> "ok", value |-> FALSE]
        /\ queueSize = 0
        /\ Len(oslog[t]) = 1 /\ oslog[t][1].tv_sec = 0 /\ oslog[t][1].tv_usec = 0
        /\ IsSocket(socketFd) /\ rxQueue = <<>>

\* C11 (as claimed): the wait time waitForMessages hands to select is the
\* timeout, split into whole seconds and the microseconds of the rest:
\* tv_sec * 1000 + tv_usec / 1000 is the timeout in milliseconds, and
\* tv_usec is below 1,000,000.
C11_WaitTimeIsTimeout ==
    \A t \in Threads :
        pc[t] = "in_select"
          => /\ inCall[t].tv_sec * 1000 + inCall[t].tv_usec \div 1000 = call[t].timeout
             /\ inCall[t].tv_usec < 1000000

\* the steps inside the system calls made under _lock, and the steps that
\* wait for _lock
UnderLock == {"in_select", "in_read", "in_setsockopt", "in_close"}
WaitsForLock == {"w_lock", "r_lock", "b_lock", "f_lock", "c_lock"}

\* the functions of the send path and those of the receive path
SendOps == {"sendMessage", "sendMessageQueue"}
ReceiveOps ==
    {"waitForMessages", "readMessage", "readQueuedMessages", "setCanFilterMask",
     "uninitialiseSocketCan"}

\* C12: with two threads calling, at most one thread at a time is inside
\* select, read, setsockopt or close, and it holds _lock; at most one thread
\* at a time is inside write, and it holds _lockSend.
C12_OneThreadInsideEachPath ==
    /\ \A t \in Threads :
         /\ pc[t] \in UnderLock => lock = t
         /\ pc[t] = "in_write" => lockSend = t
    /\ Cardinality({t \in Threads : pc[t] \in UnderLock}) <= 1
    /\ Cardinality({t \in Threads : pc[t] = "in_write"}) <= 1

\* one thread is inside read while the other waits for _lock to read as well
C12_Witness ==
    /\ callers = Threads
    /\ pc["t1"] = "in_read" /\ lock = "t1"
    /\ pc["t2"] \in {"r_lock", "b_lock"}
    /\ IsSocket(socketFd)

\* C13: sendMessage and sendMessageQueue never take or wait for _lock, the
\* functions of the receive path never take or wait for _lockSend: a sender
\* can take every step but its locking while another sender holds
\* _lockSend, whoever holds _lock, also a thread inside select; a thread of
\* the receive path that waits for _lock goes on as soon as _lock is free,
\* whoever holds _lockSend.
C13_PathsDoNotBlockEachOther ==
    /\ [](\A t \in Threads :
            /\ pc[t] \in {"s_check", "q_check", "in_write"} => ENABLED ThreadStep(t)
            /\ (pc[t] = "s_lock" /\ lockSend = NoThread) => ENABLED ThreadStep(t)
            /\ (pc[t] \in WaitsForLock /\ lock = NoThread) => ENABLED ThreadStep(t)
            /\ lock = t => call[t].op \in ReceiveOps
            /\ lockSend = t => call[t].op \in SendOps)
    /\ [][\A t \in Threads :
            /\ (Steps(t) /\ call'[t].op \in SendOps) => lock' = lock
            /\ (Steps(t) /\ call'[t].op \in ReceiveOps) => lockSend' = lockSend]_vars

\* one thread is inside select with _lock while the other is inside write
C13_Witness ==
    /\ pc["t1"] = "in_select" /\ lock = "t1"
    /\ pc["t2"] = "in_write" /\ lockSend = "t2"
    /\ call["t2"].op = "sendMessage"
    /\ inCall["t1"].tv_sec = 3

\* C14: a setCanFilterMask whose setsockopt succeeds leaves on the socket the
\* filter (id, mask) of the call, with _defaultSenderId in the place of an
\* id of 0, and stores the mask in _canFilterMask; one whose setsockopt
\* fails throws CanInitException and changes neither a member nor the
\* socket.  So the filter of the open socket is always that of the last
\* call that succeeded, and _canFilterMask is its mask.
C14_FilterIsLastSuccessfulCall ==
    /\ []((Constructed /\ IsSocket(socketFd) /\ sock.filter # NoFilter)
            => sock.filter[2] = canFilterMask)
    /\ [][\A t \in Threads :
            /\ (pc[t] = "f_lock" /\ Steps(t))
                 => /\ inCall'[t].fn = "setsockopt"
                    /\ inCall'[t].can_mask = call[t].mask
                    /\ inCall'[t].can_id =
                         IF call[t].id # 0 THEN call[t].id ELSE defaultSenderId
            /\ (pc[t] = "in_setsockopt" /\ Steps(t))
                 => /\ pc'[t] = "idle"
                    /\ IF LastCall(t)'.res = 0
                         THEN /\ ret'[t].status = "ok"
                              /\ sock' = [sock EXCEPT !.filter =
                                   <<IF call[t].id # 0 THEN call[t].id ELSE defaultSenderId,
                                     call[t].mask>>]
                              /\ canFilterMask' = call[t].mask
                              /\ UNCHANGED <<defaultSenderId, socketFd, queueSize>>
                         ELSE /\ ret'[t].status = "CanInitException"
                              /\ UNCHANGED <<fields, sock>>]_vars

\* the channel was built with mask 0x7FF and sender id 0x456; a later
\* setCanFilterMask(0, 0) has put the filter (0x456, 0) on the socket
C14_Witness ==
    \E t \in Threads :
        /\ pc[t] = "idle"
        /\ call[t] = [op |-> "setCanFilterMask", mask |-> 0, id |-> 0]
        /\ ret[t].status = "ok"
        /\ initPc = "done" /\ initLog[4].can_mask = 2047
        /\ IsSocket(socketFd)
        /\ sock.filter = <<1110, 0>>
        /\ canFilterMask = 0

\* the steps inside select, read, write and setsockopt
InsideIo == {"in_select", "in_read", "in_write", "in_setsockopt"}

\* C15 (as claimed): whatever close does on another thread meanwhile, no
\* select, read, write or setsockopt is entered with _socketFd = -1, the
\* value a close that succeeded has left: a thread inside one of them has
\* passed a descriptor that is not negative.
C15_NoIoAfterClose ==
    \A t \in Threads : pc[t] \in InsideIo => inCall[t].fd >= 0

\* thread t is between the first and the last read of a readQueuedMessages
InBatch(t) == call[t].op = "readQueuedMessages" /\ pc[t] = "in_read"

\* a system call of thread t returns
Returns(t) == oslog'[t] # oslog[t]

\* C16: readQueuedMessages takes _lock once and holds it over all its reads:
\* from one read it goes to the next or returns, never back to waiting for
\* _lock; while it is between reads no other thread enters select, read,
\* setsockopt or close or changes the socket, and the receive queue loses
\* only the frame at its head, to the batch itself, which appends the
\* message of that frame to the messages it returns.
C16_BatchHoldsLockOverReads ==
    /\ [](\A t \in Threads : InBatch(t) => lock = t)
    /\ [][\A t \in Threads :
            InBatch(t)
              => /\ \A u \in Threads \ {t} :
                      Steps(u) => /\ pc'[u] \notin UnderLock
                                  /\ UNCHANGED <<osVars, socketFd, queueSize, lock>>
                 /\ Returns(t)
                      => /\ pc'[t] \in {"in_read", "idle"}
                         /\ pc'[t] = "in_read"
                              => /\ lock' = t
                                 /\ rxQueue' = Tail(rxQueue)
                                 /\ messages'[t] = Append(messages[t], MessageOfFrame(Head(rxQueue)))
                                 /\ i'[t] = i[t] - 1
                         /\ (pc'[t] = "idle" /\ ret'[t].status = "ok")
                              => /\ rxQueue' = Tail(rxQueue)
                                 /\ ret'[t].value = Append(messages[t], MessageOfFrame(Head(rxQueue)))
                 /\ ~Returns(t)
                      => \/ rxQueue' = rxQueue
                         \/ \E f \in BusFrames : rxQueue' = Append(rxQueue, f)]_vars

\* a batch is at its second read, with one message got, while the other
\* thread waits for _lock
C16_Witness ==
    /\ InBatch("t1")
    /\ i["t1"] = 1 /\ Len(messages["t1"]) = 1
    /\ pc["t2"] \in WaitsForLock
    /\ lock = "t1"

\* C17: readMessage on an open channel enters read once; when read returns a
\* negative count, as it does on the non-blocking socket with no frame
\* queued, readMessage throws the CanException of the failed read and the
\* receive queue keeps its frames; otherwise it returns the message of the
\* frame at the head of the queue and the queue loses that frame only.
C17_ReadMessageReadsOneFrame ==
    [][\A t \in Threads :
         call[t].op = "readMessage"
           => /\ (pc[t] = "r_lock" /\ Steps(t) /\ socketFd >= 0)
                   => /\ pc'[t] = "in_read"
                      /\ inCall'[t] = [fn |-> "read", fd |-> socketFd, res |-> "pending"]
                      /\ UNCHANGED <<oslog, rxQueue>>
              /\ (pc[t] = "in_read" /\ Steps(t))
                   => /\ pc'[t] = "idle"
                      /\ Len(oslog'[t]) = 1
                      /\ (IsSocket(socketFd) /\ sock.nonblock /\ rxQueue = <<>>)
                           => LastCall(t)'.res < 0
                      /\ IF LastCall(t)'.res < 0
                           THEN /\ ret'[t] = [status |-> "CanException",
                                              what |-> "FAILED to read from CAN!",
                                              socket |-> socketFd]
                                /\ rxQueue' = rxQueue
                           ELSE /\ rxQueue # <<>>
                                /\ ret'[t] = [status |-> "ok",
                                              value |-> MessageOfFrame(Head(rxQueue))]
                                /\ rxQueue' = Tail(rxQueue)]_vars

\* a readMessage of the open, non-blocking socket has failed, and no frame
\* is queued
C17_Witness ==
    \E t \in Threads :
        /\ pc[t] = "idle"
        /\ call[t].op = "readMessage"
        /\ ret[t].status = "CanException"
        /\ Len(oslog[t]) = 1 /\ oslog[t][1].fn = "read" /\ oslog[t][1].res = -1
        /\ IsSocket(socketFd) /\ sock.nonblock /\ sock.bound
        /\ rxQueue = <<>>

\* a read that cannot return: the socket blocks and no frame is queued
ReadBlocks == \E t \in Threads : pc[t] = "in_read" /\ ReadResults(inCall[t].fd) = {}

\* C18: a thread holds no mutex when it is not in a call, none when it
\* waits for one, and never both; and with fair scheduling every call
\* returns, by a value or by an exception, unless a read stays blocked for
\* ever.
C18_EveryCallReturns ==
    /\ [](\A t \in Threads :
            /\ pc[t] \in {"idle", "s_lock"} \cup WaitsForLock => (lock # t /\ lockSend # t)
            /\ ~(lock = t /\ lockSend = t))
    /\ \/ <>[]ReadBlocks
       \/ \A t \in Threads : (pc[t] # "idle") ~> (pc[t] = "idle")

\* a batch has ended by the exception of its second read and holds no
\* mutex, while the other thread waits for _lock
C18_Witness ==
    /\ pc["t1"] = "idle"
    /\ call["t1"].op = "readQueuedMessages"
    /\ ret["t1"].status = "CanException"
    /\ Len(oslog["t1"]) = 2
    /\ lock = NoThread
    /\ pc["t2"] \in WaitsForLock

RECURSIVE FramesBy(_, _)
\* the frames thread t has put on the bus, in their order there
FramesBy(t, w) ==
    IF w = <<>> THEN <<>>
    ELSE IF Head(w).by = t THEN <<Head(w).frame>> \o FramesBy(t, Tail(w))
    ELSE FramesBy(t, Tail(w))

\* the frames of the first n messages of a queue, as sendMessage writes them
FramesOf(q, n, forceExtended) ==
    [k \in 1..n |-> [q[k].rawFrame EXCEPT !.can_id.eff =
                       forceExtended \/ Above7FF(q[k].canId)]]

\* C19: with two threads sending, the frames a sendMessageQueue has put on
\* the bus are those of the first messages of its queue, in the order of
\* the queue and once each, whatever the other thread has put between
\* them; when the call has returned a value they are those of all its
\* messages.
C19_BatchOrderKeptAmongSenders ==
    \A t \in Threads :
        call[t].op = "sendMessageQueue"
          => LET q == call[t].messages
                 mine == FramesBy(t, wire)
             IN  /\ Len(mine) <= Len(q)
                 /\ mine = FramesOf(q, Len(mine), call[t].forceExtended)
                 /\ (pc[t] = "idle" /\ ret[t].status = "ok") => Len(mine) = Len(q)
                 /\ pc[t] \in {"s_check", "s_lock", "in_write"}
                      => messages[t] = SubSeq(q, Len(mine) + 1, Len(q))

\* both frames of the batch of t1 are on the bus, and a frame of t2 between
\* them
C19_Witness ==
    /\ call["t1"].op = "sendMessageQueue"
    /\ pc["t1"] = "idle" /\ ret["t1"].status = "ok"
    /\ Len(wire) = 3
    /\ wire[1].by = "t1" /\ wire[2].by = "t2" /\ wire[3].by = "t1"
    /\ wire[1].frame.can_id.bits = 291 /\ wire[3].frame.can_id.bits = 2048

\* the reads of a call that took a frame from the receive queue
FramesTaken(log) == Cardinality({k \in 1..Len(log) : log[k].fn = "read" /\ log[k].res >= 0})

\* C20 (as claimed): readMessage and readQueuedMessages return a message for
\* every frame their reads took from the receive queue, also when a later
\* read of the batch fails: a call that ends by an exception has taken no
\* frame, a batch that returns has taken as many frames as it returns
\* messages.
C20_NoFrameLost ==
    \A t \in Threads :
        (pc[t] = "idle" /\ call[t].op \in {"readMessage", "readQueuedMessages"}
           /\ ret[t].status # "none")
          => FramesTaken(oslog[t]) =
               IF ret[t].status # "ok" THEN 0
               ELSE IF call[t].op = "readMessage" THEN 1
               ELSE Len(ret[t].value)

====
